---------------------------- MODULE Spec2Model ----------------------------
(***************************************************************************)
(* Request handling of the MCQ scanner backend.                            *)
(*                                                                         *)
(* Two deployments of the same endpoint exist in the repository: the       *)
(* serverless function api/analyze-sheet.js and the Express server         *)
(* (app.post('/api/analyze-sheet', upload.single('image'), ...)).  Both    *)
(* stage the upload with multer's disk storage, hand the stored path to    *)
(* GeminiService.analyzeImage and delete the file afterwards.              *)
(*                                                                         *)
(* A request advances in the steps at which the JavaScript event loop can  *)
(* interleave it with another request: entry, start of the upload stream,  *)
(* end of the upload stream (which runs synchronously into analyzeImage up *)
(* to the await of generateContent), and the resumption after the model's  *)
(* answer (which runs synchronously to the response, through the catch     *)
(* block when something throws).                                           *)
(***************************************************************************)
EXTENDS Integers, Sequences, FiniteSets, TLC

----------------------------------------------------------------------------
(* Bounds of the model *)

MaxClock == 1

Reqs == {1, 2}

----------------------------------------------------------------------------
(* Inputs *)

Methods == {"POST", "OPTIONS", "GET", "PUT"}

FieldNames == {"image", "photo"}

MimeTypes == {"image/jpeg", "image/png", "image/jpg", "image/gif", "application/pdf"}

MiB == 1024 * 1024

FileSizeLimit == 10 * 1024 * 1024

Sizes == {FileSizeLimit, FileSizeLimit + 1, 15 * MiB}

\* original file names, as sequences of characters
OriginalNames == { <<"s", ".", "P", "N", "G">>, <<"s", ".", "j", "p", "g">> }

----------------------------------------------------------------------------
(* The model's text output, as a sequence of lexical pieces *)

\* the triple-backtick fence marker
Fence == "<fence>"

JsonTag == "json"

Whitespace == {"\n", " "}

ObjSingle == "{\"1\":\"A\"}"

ObjMixed == "{\"1\":\"A\",\"2\":null,\"3\":[\"A\",\"C\"]}"

Prose == "I cannot determine the answers"

\* the two ends of the object {"1":"..."} around the characters of its string
StrOpen == "{\"1\":\""

StrClose == "\"}"

\* what may stand raw inside a JSON string (a raw line break may not)
StringPieces == {Fence, JsonTag, " ", Prose}

\* a JSON value: the sequence of its <<key, value>> members, each value the
\* sequence of its pieces
NoData == << >>

JsonValue(tok) ==
  IF tok = ObjSingle THEN << <<"1", <<"A">> >> >>
  ELSE IF tok = ObjMixed
       THEN << <<"1", <<"A">> >>, <<"2", <<"null">> >>, <<"3", <<"A", "C">> >> >>
  ELSE NoData

JsonTokens == {ObjSingle, ObjMixed}

\* the text is the object {"1":"..."} with a well-formed string
JsonStringObject(t) ==
  /\ Len(t) >= 2
  /\ t[1] = StrOpen /\ t[Len(t)] = StrClose
  /\ \A i \in 2..(Len(t) - 1) : t[i] \in StringPieces

ModelTexts ==
  { <<ObjSingle>>,
    <<ObjMixed>>,
    <<Fence, JsonTag, "\n", ObjSingle, "\n", Fence>>,
    <<Fence, "\n", ObjMixed, "\n", Fence>>,
    <<Prose>>,
    <<ObjSingle, " ", Prose>> }

\* a replace without the g flag: only the first fence marker is removed
RECURSIVE StripFirstFence(_)
StripFirstFence(text) ==
  IF text = << >> THEN << >>
  ELSE IF Head(text) = Fence
       THEN IF Len(text) >= 2 /\ text[2] = JsonTag
            THEN SubSeq(text, 3, Len(text))
            ELSE Tail(text)
       ELSE <<Head(text)>> \o StripFirstFence(Tail(text))

\* text.replace(/<fence>json|<fence>/g, ''): every fence marker, with a
\* directly following json tag when there is one, is removed
RECURSIVE StripFences(_)
StripFences(text) ==
  IF text = << >> THEN << >>
  ELSE IF Head(text) = Fence
       THEN IF Len(text) >= 2 /\ text[2] = JsonTag
            THEN StripFences(SubSeq(text, 3, Len(text)))
            ELSE StripFences(Tail(text))
       ELSE <<Head(text)>> \o StripFences(Tail(text))

\* String.prototype.trim
RECURSIVE TrimLeft(_)
TrimLeft(text) ==
  IF text # << >> /\ Head(text) \in Whitespace THEN TrimLeft(Tail(text)) ELSE text

RECURSIVE TrimRight(_)
TrimRight(text) ==
  IF text # << >> /\ text[Len(text)] \in Whitespace
  THEN TrimRight(SubSeq(text, 1, Len(text) - 1))
  ELSE text

Trim(text) == TrimRight(TrimLeft(text))

CleanedText(text) == Trim(StripFences(text))

\* JSON.parse: succeeds exactly on one JSON value (surrounding whitespace allowed)
JsonParses(text) ==
  \/ Len(Trim(text)) = 1 /\ Trim(text)[1] \in JsonTokens
  \/ JsonStringObject(Trim(text))

JsonParse(text) ==
  IF Len(Trim(text)) = 1 THEN JsonValue(Trim(text)[1])
  ELSE << <<"1", SubSeq(Trim(text), 2, Len(Trim(text)) - 1)>> >>

\* lines 57-62 of analyzeImage on a text: clean, then JSON.parse or throw
PostProcess(text) ==
  [ done    |-> TRUE,
    cleaned |-> CleanedText(text),
    ok      |-> JsonParses(CleanedText(text)),
    value   |-> IF JsonParses(CleanedText(text)) THEN JsonParse(CleanedText(text))
                ELSE NoData ]

----------------------------------------------------------------------------
(* Files *)

NoFile == [ts |-> -1, name |-> << >>]

NoOwner == 0

\* filename: Date.now() + '-' + file.originalname, under the destination directory
filename(clock, originalname) == [ts |-> clock, name |-> originalname]

Paths == [ts : 0..MaxClock, name : OriginalNames]

existsSync(files, path) == files[path] # NoOwner

unlink(files, path) == [files EXCEPT ![path] = NoOwner]

\* destination of the disk storage
Directory == "/tmp/"

\* req.file.path as a string: destination, timestamp, '-', original name
PathString(path) == <<Directory, ToString(path.ts), "-">> \o path.name

UpperToLower ==
  [P |-> "p", N |-> "n", G |-> "g", I |-> "i", F |-> "f", J |-> "j", E |-> "e", S |-> "s"]

\* a comparison that keeps the case of the path
KeepCase(chars) == chars

\* String.prototype.toLowerCase
toLowerCase(chars) ==
  [i \in 1..Len(chars) |->
     IF chars[i] \in DOMAIN UpperToLower THEN UpperToLower[chars[i]] ELSE chars[i]]

\* String.prototype.endsWith
endsWith(chars, suffix) ==
  /\ Len(chars) >= Len(suffix)
  /\ SubSeq(chars, Len(chars) - Len(suffix) + 1, Len(chars)) = suffix

DotPng == <<".", "p", "n", "g">>

DotGif == <<".", "g", "i", "f">>

\* analyzeImage, "Determine mime type"
mimeTypeOf(imagePath) ==
  IF endsWith(toLowerCase(imagePath), DotPng) THEN "image/png"
  ELSE IF endsWith(toLowerCase(imagePath), DotGif) THEN "image/gif"
  ELSE "image/jpeg"

allowedTypes == {"image/jpeg", "image/png", "image/jpg", "image/gif"}

\* a filter that lets every declared type through
fileFilterAcceptsAll(mimetype) == TRUE

\* fileFilter: cb(null, true) or cb(new Error('Invalid file type...'))
fileFilter(mimetype) == mimetype \in allowedTypes

\* limits.fileSize: the stream is cut and LIMIT_FILE_SIZE raised beyond the limit
withinFileSize(size) == size <= FileSizeLimit

\* upload.single('image'): a file part under any other field name is unexpected
expectedField(fieldname) == fieldname = "image"

----------------------------------------------------------------------------
(* Responses *)

NoBody == [kind |-> "none", success |-> FALSE, message |-> "", data |-> NoData]

EmptyBody == [kind |-> "empty", success |-> FALSE, message |-> "", data |-> NoData]

HtmlErrorBody == [kind |-> "html", success |-> FALSE, message |-> "", data |-> NoData]

Failure(msg) == [kind |-> "json", success |-> FALSE, message |-> msg, data |-> NoData]

Success(value) == [kind |-> "json", success |-> TRUE, message |-> "", data |-> value]

MsgMethodNotAllowed == "Method not allowed"

MsgNoImage == "No image file uploaded"

MsgAnalyzeFailed == "Failed to analyze the image. Please try again."

MsgInvalidType == "Invalid file type. Only JPEG, PNG, JPG, and GIF are allowed."

MsgFileTooLarge == "File too large"

MsgUnexpectedField == "Unexpected field"

MsgGeminiFailed == "Failed to analyze image with Gemini API"

\* message of the error a throwing fs.unlinkSync raises
MsgUnlinkFailed == "unlink failed"

LogMcq == "MCQ Analysis Error"

LogGemini == "Gemini Analysis Error"

CorsHeaderNames == {"Access-Control-Allow-Origin",
                    "Access-Control-Allow-Methods",
                    "Access-Control-Allow-Headers"}

CorsHeaders(dep) ==
  { <<"Access-Control-Allow-Origin", "*">>,
    <<"Access-Control-Allow-Methods",
      IF dep = "serverless" THEN "POST, OPTIONS" ELSE "POST, GET, OPTIONS">>,
    <<"Access-Control-Allow-Headers", "Content-Type">> }

----------------------------------------------------------------------------
\* client is the Analysis Client exercised on its own (see the last sections);
\* while requests are served it stays IdleClient
VARIABLES deployment, now, fs, req, client

vars == <<deployment, now, fs, req, client>>

Deployments == {"serverless", "express"}

NewRequest ==
  [ pc           |-> "idle",
    method       |-> "",
    fieldname    |-> "",
    mimetype     |-> "",
    size         |-> 0,
    originalname |-> << >>,
    spool        |-> NoFile,     \* where multer is writing the part
    file         |-> NoFile,     \* req.file.path, NoFile when req.file is unset
    error        |-> "",         \* message of the error last thrown
    readFrom     |-> NoOwner,    \* whose bytes readFileSync returned
    calls        |-> 0,          \* generateContent calls made
    analysis     |-> "none",     \* none | awaiting | ok | failed
    mimeType     |-> "",         \* inlineData.mimeType sent to the model
    result       |-> NoData,     \* value analyzeImage returned
    headers      |-> {},
    status       |-> 0,
    body         |-> NoBody,
    sentBy       |-> "none",     \* none | handler | express
    log          |-> {} ]

NoOutcome == [done |-> FALSE, cleaned |-> << >>, ok |-> FALSE, value |-> NoData]

IdleClient ==
  [ pc       |-> "idle",
    path     |-> << >>,        \* imagePath, as characters
    declared |-> "",           \* content type declared at upload
    mimeType |-> "",           \* mimeType chosen for the image part
    text     |-> << >>,        \* a text T the model may answer
    bare     |-> NoOutcome,    \* post-processing of T
    fenced   |-> NoOutcome ]   \* post-processing of T inside a json fence

Init ==
  /\ deployment \in Deployments
  /\ now = 0
  /\ fs = [p \in Paths |-> NoOwner]
  /\ req = [r \in Reqs |-> NewRequest]
  /\ client = IdleClient

\* res.status(code).json(body) / .end()
Respond(q, code, body) ==
  [q EXCEPT !.pc = "done", !.status = code, !.body = body, !.sentBy = "handler"]

----------------------------------------------------------------------------
\* the entry without the OPTIONS branch: a preflight falls into the method check
EntryWithoutPreflight(q) ==
  IF q.method # "POST" THEN Respond(q, 405, Failure(MsgMethodNotAllowed))
  ELSE [q EXCEPT !.pc = "upload"]

\* the entry without the method check: every other method goes on to the upload
EntryWithoutMethodCheck(q) ==
  IF q.method = "OPTIONS" THEN Respond(q, 200, EmptyBody)
  ELSE [q EXCEPT !.pc = "upload"]

\* lines 45-56 of the serverless handler, after the CORS headers are set:
\* OPTIONS ends with an empty 200, any method but POST with 405
Entry(q) ==
  IF q.method = "OPTIONS" THEN Respond(q, 200, EmptyBody)
  ELSE IF q.method # "POST" THEN Respond(q, 405, Failure(MsgMethodNotAllowed))
  ELSE [q EXCEPT !.pc = "upload"]

(* Entry of a request.  The serverless function sees every method; on the   *)
(* Express server the CORS middleware runs and the route, registered with   *)
(* app.post, is reached by POST only.                                       *)
Receive(r) ==
  /\ req[r].pc = "idle"
  /\ \E m \in Methods :
       /\ deployment = "express" => m = "POST"
       /\ LET q == [req[r] EXCEPT !.method = m, !.headers = CorsHeaders(deployment)]
          IN  req' = [req EXCEPT ![r] =
                IF deployment = "serverless" THEN Entry(q)
                ELSE [q EXCEPT !.pc = "upload"]]
  /\ UNCHANGED <<deployment, now, fs, client>>

----------------------------------------------------------------------------
(* The catch block of the handler: log, delete the file if req.file is set  *)
(* and the file exists, answer 500.  unlinkFails says that fs.unlinkSync    *)
(* throws there; the exception then leaves the handler and nothing is sent. *)
CatchDeletes(q, files) == q.file # NoFile /\ existsSync(files, q.file)

CatchFiles(q, files, unlinkFails) ==
  IF CatchDeletes(q, files) /\ ~unlinkFails THEN unlink(files, q.file) ELSE files

Catch(q, files, msg, unlinkFails) ==
  LET logged == [q EXCEPT !.error = msg, !.log = @ \cup {LogMcq}]
  IN  IF CatchDeletes(q, files) /\ unlinkFails
      THEN [logged EXCEPT !.pc = "crashed"]
      ELSE Respond(logged, 500, Failure(MsgAnalyzeFailed))

\* Express's own error handler, reached by next(err) from the route's middleware
ExpressErrorHandler(q, msg) ==
  [q EXCEPT !.pc = "done", !.error = msg, !.status = 500,
            !.body = HtmlErrorBody, !.sentBy = "express"]

\* An error passed on by upload.single('image'): runMiddleware rejects into the
\* handler's catch (serverless); Express never calls the route handler.
UploadError(q, files, msg) ==
  IF deployment = "serverless" THEN Catch(q, files, msg, FALSE)
  ELSE ExpressErrorHandler(q, msg)

\* a catch block that calls the model once more before giving up
AnalysisFailedAfterRetry(q) ==
  [q EXCEPT !.analysis = "failed", !.calls = @ + 1, !.log = @ \cup {LogGemini}]

\* the catch block inside analyzeImage: log and rethrow
AnalysisFailed(q) ==
  [q EXCEPT !.analysis = "failed", !.log = @ \cup {LogGemini}]

(* multer refuses the file part before storing it: wrong field, or fileFilter *)
UploadRejected(r) ==
  /\ req[r].pc = "upload"
  /\ \E f \in FieldNames, t \in MimeTypes, sz \in Sizes :
       /\ ~expectedField(f) \/ ~fileFilter(t)
       /\ LET q == [req[r] EXCEPT !.fieldname = f, !.mimetype = t, !.size = sz]
          IN  req' = [req EXCEPT ![r] =
                UploadError(q, fs, IF ~expectedField(f) THEN MsgUnexpectedField
                                   ELSE MsgInvalidType)]
  /\ UNCHANGED <<deployment, now, fs, client>>

(* the body holds no file part: req.file stays unset, the handler answers 400 *)
UploadEmpty(r) ==
  /\ req[r].pc = "upload"
  /\ req' = [req EXCEPT ![r] = Respond(req[r], 400, Failure(MsgNoImage))]
  /\ UNCHANGED <<deployment, now, fs, client>>

(* the file part passes the filter: disk storage names the file and opens it. *)
(* Date.now() is read here and nowhere else: clock is the time it returns,    *)
(* no earlier than the time it returned last.                                 *)
UploadBegin(r) ==
  /\ req[r].pc = "upload"
  /\ \E f \in FieldNames, t \in MimeTypes, sz \in Sizes, n \in OriginalNames,
        clock \in now..MaxClock :
       /\ expectedField(f) /\ fileFilter(t)
       /\ LET path == filename(clock, n)
          IN  /\ req' = [req EXCEPT ![r] =
                   [@ EXCEPT !.pc = "spooling", !.fieldname = f, !.mimetype = t,
                             !.size = sz, !.originalname = n, !.spool = path]]
              /\ fs' = [fs EXCEPT ![path] = r]
              /\ now' = clock
  /\ UNCHANGED <<deployment, client>>

(* the part was longer than limits.fileSize: multer removes what it stored  *)
(* and passes LIMIT_FILE_SIZE on; req.file is never set                     *)
UploadTooLarge(r) ==
  /\ req[r].pc = "spooling"
  /\ ~withinFileSize(req[r].size)
  /\ fs' = unlink(fs, req[r].spool)
  /\ req' = [req EXCEPT ![r] = UploadError(req[r], fs', MsgFileTooLarge)]
  /\ UNCHANGED <<deployment, now, client>>

(* the part is stored: req.file is set and the handler calls analyzeImage,  *)
(* which reads the file and awaits generateContent                          *)
UploadStored(r) ==
  /\ req[r].pc = "spooling"
  /\ withinFileSize(req[r].size)
  /\ LET q == [req[r] EXCEPT !.file = req[r].spool]
     IN  req' = [req EXCEPT ![r] =
           IF existsSync(fs, q.file)
           THEN [q EXCEPT !.pc = "awaiting", !.readFrom = fs[q.file],
                          !.mimeType = mimeTypeOf(PathString(q.file)),
                          !.calls = @ + 1, !.analysis = "awaiting"]
           ELSE Catch(AnalysisFailed(q), fs, MsgGeminiFailed, FALSE)]
  /\ UNCHANGED <<deployment, now, fs, client>>

(* generateContent rejects *)
ModelThrows(r) ==
  /\ req[r].pc = "awaiting"
  /\ \E unlinkFails \in BOOLEAN :
       /\ req' = [req EXCEPT ![r] =
            Catch(AnalysisFailed(req[r]), fs, MsgGeminiFailed, unlinkFails)]
       /\ fs' = CatchFiles(req[r], fs, unlinkFails)
  /\ UNCHANGED <<deployment, now, client>>

\* lines 73-79: delete the file, answer 200; a throwing unlinkSync lands in catch
AfterAnalysis(q, files, firstFails, secondFails) ==
  IF existsSync(files, q.file) /\ ~firstFails
  THEN Respond(q, 200, Success(q.result))
  ELSE Catch(q, files, MsgUnlinkFailed, secondFails)

FilesAfterAnalysis(q, files, firstFails, secondFails) ==
  IF existsSync(files, q.file) /\ ~firstFails
  THEN unlink(files, q.file)
  ELSE CatchFiles(q, files, secondFails)

(* generateContent resolves with a text *)
ModelResponds(r) ==
  /\ req[r].pc = "awaiting"
  /\ \E text \in ModelTexts, firstFails \in BOOLEAN, secondFails \in BOOLEAN :
       IF JsonParses(CleanedText(text))
       THEN LET q == [req[r] EXCEPT !.analysis = "ok",
                                    !.result = JsonParse(CleanedText(text))]
            IN  /\ req' = [req EXCEPT ![r] =
                      AfterAnalysis(q, fs, firstFails, secondFails)]
                /\ fs' = FilesAfterAnalysis(q, fs, firstFails, secondFails)
       ELSE /\ req' = [req EXCEPT ![r] =
                  Catch(AnalysisFailed(req[r]), fs, MsgGeminiFailed, secondFails)]
            /\ fs' = CatchFiles(req[r], fs, secondFails)
  /\ UNCHANGED <<deployment, now, client>>

Step(r) ==
  \/ Receive(r)
  \/ UploadRejected(r)
  \/ UploadEmpty(r)
  \/ UploadBegin(r)
  \/ UploadTooLarge(r)
  \/ UploadStored(r)
  \/ ModelThrows(r)
  \/ ModelResponds(r)

Next == \E r \in Reqs : Step(r)

Spec == Init /\ [][Next]_vars

----------------------------------------------------------------------------
(* The Analysis Client on its own: choice of the MIME type.  analyzeImage   *)
(* is given the path of a stored upload, of any name the client may have    *)
(* sent, and determines the mimeType of the image part.                     *)

ProbeNames ==
  { <<"s", ".", "p", "n", "g">>, <<"s", ".", "P", "N", "G">>, <<"s", ".", "P", "n", "g">>,
    <<"s", ".", "g", "i", "f">>, <<"s", ".", "G", "I", "F">>, <<"s", ".", "g", "I", "f">>,
    <<"s", ".", "j", "p", "g">>, <<"s", ".", "j", "p", "e", "g">>, <<"s", ".", "J", "P", "G">>,
    <<"s">>, <<"s", "p", "n", "g">>, <<".", "g", "i", "f">>,
    <<"s", ".", "p", "n", "g", ".", "j", "p", "g">>, <<"s", ".", "g", "i", "f", ".", "P", "N", "G">>,
    <<"s", ".", "p", "n">>, <<"p", "n", "g", ".">> }

AnyRequestIdle ==
  /\ deployment = "serverless"
  /\ now = 0
  /\ fs = [p \in Paths |-> NoOwner]
  /\ req = [r \in Reqs |-> NewRequest]

InitMime ==
  /\ AnyRequestIdle
  /\ \E n \in ProbeNames, clock \in 0..MaxClock, t \in allowedTypes :
       client = [IdleClient EXCEPT !.pc = "stored",
                                   !.path = PathString(filename(clock, n)),
                                   !.declared = t]

(* lines 28-34 of analyzeImage *)
DetermineMimeType ==
  /\ client.pc = "stored"
  /\ client' = [client EXCEPT !.pc = "mime", !.mimeType = mimeTypeOf(client.path)]
  /\ UNCHANGED <<deployment, now, fs, req>>

NextMime == DetermineMimeType

SpecMime == InitMime /\ [][NextMime]_vars

----------------------------------------------------------------------------
(* The Analysis Client on its own: post-processing of the model's text.     *)
(* The model answers a text T, once as it is and once inside a json fence.  *)

MaxTextLen == 3

Pieces == {Fence, JsonTag, "\n", " ", ObjSingle, Prose, StrOpen, StrClose}

TextsUpTo(n) == UNION { [1..k -> Pieces] : k \in 0..n }

\* T inside a fence: fence, json, newline, T, newline, fence
Fenced(text) == <<Fence, JsonTag, "\n">> \o text \o <<"\n", Fence>>

InitText ==
  /\ AnyRequestIdle
  /\ \E t \in TextsUpTo(MaxTextLen) :
       client = [IdleClient EXCEPT !.pc = "answered", !.text = t]

(* the model answered T *)
PostProcessBare ==
  /\ client.pc = "answered" /\ ~client.bare.done
  /\ client' = [client EXCEPT !.bare = PostProcess(client.text)]
  /\ UNCHANGED <<deployment, now, fs, req>>

(* the model answered T inside a json fence *)
PostProcessFenced ==
  /\ client.pc = "answered" /\ ~client.fenced.done
  /\ client' = [client EXCEPT !.fenced = PostProcess(Fenced(client.text))]
  /\ UNCHANGED <<deployment, now, fs, req>>

NextText == PostProcessBare \/ PostProcessFenced

SpecText == InitText /\ [][NextText]_vars

----------------------------------------------------------------------------
(* Vocabulary of the properties *)

\* the handler has ended for r: a response was sent, or an exception left it
Finished(r) == req[r].pc \in {"done", "crashed"}

\* the upload of r has been decided: accepted and stored, or refused
UploadDecided(r) == req[r].pc \in {"awaiting", "done", "crashed"} /\ req[r].method = "POST"

SupportedTypes == {"image/jpeg", "image/png", "image/jpg", "image/gif"}

TenMiB == 10 * MiB

\* r carries, in the image field, a file of a supported type within the ceiling
ValidUpload(r) ==
  /\ req[r].fieldname = "image"
  /\ req[r].mimetype \in SupportedTypes
  /\ req[r].size <= TenMiB

\* r carries, in the image field, a file that validation must refuse
InvalidUpload(r) ==
  /\ req[r].fieldname = "image"
  /\ req[r].mimetype \notin SupportedTypes \/ req[r].size > TenMiB

HeaderNames(r) == { h[1] : h \in req[r].headers }

\* nothing of the file handling has happened for r
NoFileHandling(r) ==
  /\ req[r].fieldname = ""
  /\ req[r].spool = NoFile
  /\ req[r].file = NoFile
  /\ req[r].analysis = "none"
  /\ req[r].calls = 0

----------------------------------------------------------------------------
(* C1: cleanup invariant.  Once the handler has ended for a request, on any *)
(* exit path, the temporary file created for that request does not exist.   *)
C1_CleanupOnEveryExit ==
  \A r \in Reqs :
    (Finished(r) /\ req[r].spool # NoFile) => fs[req[r].spool] # r

(* C2: an upload that fails validation (unsupported declared type, or more  *)
(* than 10 MiB) is answered 400 with a failure envelope whose message is    *)
(* specific to the rejection, never with the 500 analysis-failure envelope, *)
(* and is never logged as an analysis failure.                              *)
C2_ValidationAnswered400 ==
  \A r \in Reqs :
    (deployment = "serverless" /\ Finished(r) /\ InvalidUpload(r)) =>
       /\ req[r].status = 400
       /\ req[r].body.kind = "json" /\ ~req[r].body.success
       /\ req[r].body.message = req[r].error
       /\ req[r].body # Failure(MsgAnalyzeFailed)
       /\ LogMcq \notin req[r].log

(* C3: for a POST whose upload has been decided, the Analysis Client is     *)
(* invoked if and only if the request carries (in the image field) a file   *)
(* of a supported declared type of at most 10 MiB; for a refused upload no  *)
(* external model call is made.                                             *)
C3_AnalysisIffValidUpload ==
  \A r \in Reqs :
    /\ UploadDecided(r) => (req[r].analysis # "none" <=> ValidUpload(r))
    /\ req[r].calls > 0 => ValidUpload(r)

C3_Witness ==
  \E r, o \in Reqs :
    /\ UploadDecided(r) /\ ValidUpload(r) /\ req[r].calls = 1
    /\ req[r].mimetype = "image/gif" /\ req[r].size = TenMiB
    /\ UploadDecided(o) /\ InvalidUpload(o) /\ req[o].size = 15 * MiB
    /\ req[o].mimetype \in SupportedTypes /\ req[o].calls = 0

(* C4: when the Analysis Client has returned a parsed value V, the handler  *)
(* deletes the temporary file and answers 200 {success: true, data: V};     *)
(* and a success envelope is sent only after a fully successful analysis.   *)
C4_SuccessReturnsValue ==
  \A r \in Reqs :
    /\ (Finished(r) /\ req[r].analysis = "ok") =>
          /\ req[r].status = 200
          /\ req[r].body = Success(req[r].result)
          /\ ~existsSync(fs, req[r].file) \/ fs[req[r].file] # r
    /\ req[r].body.success => req[r].analysis = "ok"

(* C5: when the model call throws or its text does not parse, the Analysis  *)
(* Client raises its analysis-failed error and the handler answers 500 with *)
(* the generic failure envelope: the request ends with one response.        *)
C5_AnalysisFailureAnswered500 ==
  \A r \in Reqs :
    (Finished(r) /\ req[r].analysis = "failed") =>
       /\ req[r].error = MsgGeminiFailed
       /\ req[r].pc = "done" /\ req[r].sentBy = "handler"
       /\ req[r].status = 500
       /\ req[r].body = Failure(MsgAnalyzeFailed)

(* C6: every error raised while handling a request is caught at the         *)
(* request-handling boundary and turned into the failure envelope: no       *)
(* execution ends with an exception leaving the handler and no response.    *)
(* Stated of the serverless handler, where the upload runs inside the try.  *)
C6_EveryErrorBecomesEnvelope ==
  \A r \in Reqs :
    deployment = "serverless" =>
      /\ req[r].pc # "crashed"
      /\ (Finished(r) /\ req[r].error # "") =>
            /\ req[r].sentBy = "handler"
            /\ req[r].body.kind = "json" /\ ~req[r].body.success

(* C7: the temporary file is never shared between concurrent requests: a    *)
(* request reads only its own file, and while it is in flight no other      *)
(* request replaces or removes that file.                                   *)
C7_FileNeverShared ==
  \A r \in Reqs :
    /\ req[r].readFrom \in {NoOwner, r}
    /\ req[r].pc \in {"spooling", "awaiting"} => fs[req[r].spool] = r

(* C8: an OPTIONS request ends with 200, an empty body and the three        *)
(* cross-origin headers, before any file handling.                          *)
C8_OptionsShortCircuits ==
  \A r \in Reqs :
    (req[r].method = "OPTIONS") =>
       /\ req[r].pc = "done" /\ req[r].sentBy = "handler"
       /\ req[r].status = 200
       /\ req[r].body = EmptyBody
       /\ CorsHeaderNames \subseteq HeaderNames(r)
       /\ NoFileHandling(r)

C8_Witness ==
  \E r \in Reqs : req[r].method = "OPTIONS" /\ req[r].pc = "done"

(* C9: a request whose method is neither POST nor OPTIONS is answered 405   *)
(* {success: false, message: 'Method not allowed'} with the cross-origin    *)
(* headers, before any file receipt.                                        *)
C9_OtherMethodsAnswered405 ==
  \A r \in Reqs :
    (req[r].method \notin {"", "POST", "OPTIONS"}) =>
       /\ req[r].pc = "done" /\ req[r].sentBy = "handler"
       /\ req[r].status = 405
       /\ req[r].body = Failure(MsgMethodNotAllowed)
       /\ CorsHeaderNames \subseteq HeaderNames(r)
       /\ NoFileHandling(r)

C9_Witness ==
  \E r \in Reqs : req[r].method = "PUT" /\ req[r].pc = "done"

(* C10: a POST that carries no file in the image field is answered 400      *)
(* {success: false, message: 'No image file uploaded'}; the Analysis Client *)
(* is not invoked and no temporary file is left behind.                     *)
C10_NoImageAnswered400 ==
  \A r \in Reqs :
    (deployment = "serverless" /\ Finished(r) /\ req[r].method = "POST"
       /\ req[r].fieldname # "image") =>
       /\ req[r].status = 400
       /\ req[r].body = Failure(MsgNoImage)
       /\ req[r].analysis = "none" /\ req[r].calls = 0
       /\ req[r].spool = NoFile

(* C11: within one request the external model is called at most once.  Once *)
(* the model call has failed or its text has failed to parse, the request   *)
(* is in the failed state, stays there and makes no further call; and a     *)
(* request that has a result made its own call for it (nothing is cached).  *)
C11_AtMostOneModelCall ==
  [][ \A r \in Reqs :
        /\ req'[r].calls <= 1
        /\ req[r].analysis = "failed" =>
              /\ req'[r].analysis = "failed"
              /\ req'[r].calls = req[r].calls
        /\ req'[r].analysis = "ok" => req'[r].calls = 1 ]_vars

C11_Witness ==
  \E r, o \in Reqs :
    /\ Finished(r) /\ req[r].analysis = "failed" /\ req[r].calls = 1
    /\ Finished(o) /\ req[o].analysis = "ok" /\ req[o].calls = 1

Range(seq) == { seq[i] : i \in 1..Len(seq) }

\* no fence marker is left and no whitespace surrounds the text
Cleaned(text) ==
  /\ Fence \notin Range(text)
  /\ text # << >> => (text[1] \notin Whitespace /\ text[Len(text)] \notin Whitespace)

(* C12: post-processing removes every fence marker, with or without a json  *)
(* tag, trims the surrounding whitespace and parses the rest as JSON; for   *)
(* every JSON text T the fenced form (fence, json, newline, T, newline,     *)
(* fence) and the bare form T parse, and to the identical value.            *)
C12_FencedParsesLikeBare ==
  /\ client.bare.done => Cleaned(client.bare.cleaned)
  /\ client.fenced.done => Cleaned(client.fenced.cleaned)
  /\ (client.bare.done /\ client.fenced.done /\ JsonParses(client.text)) =>
        /\ client.bare.ok /\ client.fenced.ok
        /\ client.bare.value = client.fenced.value

C12_Witness ==
  /\ client.text = <<ObjSingle>>
  /\ client.bare.done /\ client.bare.ok
  /\ client.fenced.done /\ client.fenced.ok
  /\ client.fenced.value = << <<"1", <<"A">> >> >>

\* the last four characters of a path (fewer when it is shorter)
Last4(chars) ==
  IF Len(chars) <= 4 THEN chars ELSE SubSeq(chars, Len(chars) - 3, Len(chars))

\* .png and .gif in every mix of upper and lower case
PngSuffixes == { <<".", a, b, c>> : a \in {"p", "P"}, b \in {"n", "N"}, c \in {"g", "G"} }

GifSuffixes == { <<".", a, b, c>> : a \in {"g", "G"}, b \in {"i", "I"}, c \in {"f", "F"} }

(* C13: the MIME type sent to the model depends on the suffix of the stored *)
(* file's name only, compared without regard to case: .png gives image/png, *)
(* .gif gives image/gif, every other path gives image/jpeg, whatever        *)
(* content type was declared at upload.                                     *)
C13_MimeTypeFromSuffix ==
  client.pc = "mime" =>
    client.mimeType =
      IF Last4(client.path) \in PngSuffixes THEN "image/png"
      ELSE IF Last4(client.path) \in GifSuffixes THEN "image/gif"
      ELSE "image/jpeg"

C13_Witness ==
  /\ client.pc = "mime"
  /\ Last4(client.path) = <<".", "P", "N", "G">>
  /\ client.declared = "image/gif"
  /\ client.mimeType = "image/png"

=============================================================================
